---- MODULE Spec2Model ----
(***************************************************************************)
(* TelegrafContext (src/src/context.ts): classification of an inbound      *)
(* update, the resolution chains (chat / from / inlineMessageId), the      *)
(* assert guard and the dispatch methods that delegate to the Telegram     *)
(* client.                                                                 *)
(***************************************************************************)
EXTENDS Integers, Sequences, FiniteSets, TLC

\* ------------------------------------------------------------------ bounds
\* how many primary-kind fields a drawn update carries at most
MaxKinds == 2
\* how many content fields a drawn message carries at most
MaxSubKeys == 2
\* how many arguments the caller passes at most
MaxArgs == 2
\* how many calls the Telegram client records before dispatch stops
MaxCalls == 1
\* how many state bags are allocated at most
MaxBags == 3

\* --------------------------------------------------------- JavaScript values
Undefined == [t |-> "undefined"]
Null == [t |-> "null"]
Num(n) == [t |-> "num", n |-> n]
Str(s) == [t |-> "str", s |-> s]
Arr(items) == [t |-> "arr", items |-> items]
Obj(f) == [t |-> "obj", f |-> f]
Ref(id) == [t |-> "ref", id |-> id]
Bool(b) == [t |-> "bool", b |-> b]

\* ToBoolean for the values the model draws: what `!v` and `v && ...` test
Truthy(v) == ~(v.t \in {"undefined", "null"}) /\ v # Bool(FALSE)

\* an object literal from a non-empty set of <<key, value>> pairs
Rec(pairs) == [k \in {p[1] : p \in pairs} |-> (CHOOSE p \in pairs : p[1] = k)[2]]

\* a == null (undefined or null): what ?? and ?. test
IsNullish(v) == v.t \in {"undefined", "null"}

\* key in o; the operand must be an object (CanIn), else `in` throws a TypeError
CanIn(o) == o.t = "obj"
In(key, o) == key \in DOMAIN o.f

\* o.key on a non-nullish o: the property's value, undefined when it is absent
Prop(o, key) == IF o.t = "obj" /\ key \in DOMAIN o.f THEN o.f[key] ELSE Undefined

\* o?.key, the operand o evaluated once (bound to v)
OptProp(o, key) ==
  CHOOSE r \in {IF IsNullish(v) THEN Undefined ELSE Prop(v, key) : v \in {o}} : TRUE

\* a ?? b
Coalesce(a, b) == IF IsNullish(a) THEN b ELSE a

\* vs[1] ?? vs[2] ?? ... ?? vs[n], the operands evaluated left to right
RECURSIVE CoalesceFrom(_, _)
CoalesceFrom(vs, i) ==
  IF i = Len(vs) \/ ~IsNullish(vs[i]) THEN vs[i] ELSE CoalesceFrom(vs, i + 1)
CoalesceAll(vs) == CHOOSE r \in {CoalesceFrom(v, 1) : v \in {vs}} : TRUE

\* ------------------------------------------------------------ the taxonomy
UpdateTypes ==
  << "callback_query", "channel_post", "chosen_inline_result",
     "edited_channel_post", "edited_message", "inline_query",
     "shipping_query", "pre_checkout_query", "message", "poll",
     "poll_answer" >>

MessageSubTypes ==
  << "voice", "video_note", "video", "animation", "venue", "text",
     "supergroup_chat_created", "successful_payment", "sticker",
     "pinned_message", "photo", "new_chat_title", "new_chat_photo",
     "new_chat_members", "migrate_to_chat_id", "migrate_from_chat_id",
     "location", "left_chat_member", "invoice", "group_chat_created",
     "game", "dice", "document", "delete_chat_photo", "contact",
     "channel_chat_created", "audio", "connected_website", "passport_data",
     "poll", "forward_date" >>

MessageSubTypesMapping == [forward_date |-> "forward"]

\* (type) => MessageSubTypesMapping[type] || type
MapSubType(type) ==
  IF type \in DOMAIN MessageSubTypesMapping THEN MessageSubTypesMapping[type] ELSE type

\* Array.prototype.find over a sequence of keys: the first key in the object
\* (a string value), undefined when there is none
RECURSIVE FindFrom(_, _, _)
FindFrom(keys, o, i) ==
  IF i > Len(keys) THEN Undefined
  ELSE IF In(keys[i], o) THEN Str(keys[i])
  ELSE FindFrom(keys, o, i + 1)

FindLastFrom(keys, o) ==
  LET hits == {i \in 1..Len(keys) : In(keys[i], o)}
  IN IF hits = {} THEN Undefined
     ELSE Str(keys[CHOOSE i \in hits : \A j \in hits : j <= i])

FindUpdateTypeLast(u) == FindLastFrom(UpdateTypes, u)

\* UpdateTypes.find((key) => key in this.update)
FindUpdateType(u) == FindFrom(UpdateTypes, u, 1)

\* .filter((key) => key in sub).map(...) over MessageSubTypes
RECURSIVE FilterMapFrom(_, _)
FilterMapFrom(sub, i) ==
  IF i > Len(MessageSubTypes) THEN << >>
  ELSE IF In(MessageSubTypes[i], sub)
       THEN << MapSubType(MessageSubTypes[i]) >> \o FilterMapFrom(sub, i + 1)
       ELSE FilterMapFrom(sub, i + 1)

RECURSIVE FilterFrom(_, _)
FilterFrom(sub, i) ==
  IF i > Len(MessageSubTypes) THEN << >>
  ELSE IF In(MessageSubTypes[i], sub)
       THEN << MessageSubTypes[i] >> \o FilterFrom(sub, i + 1)
       ELSE FilterFrom(sub, i + 1)

SubTypesUnmapped(sub) == FilterFrom(sub, 1)

SubTypesOf(sub) == FilterMapFrom(sub, 1)

\* the condition of the constructor's if: message, or channel_post in channelMode
WantsSubTypes(type, opts) ==
  \/ type = Str("message")
  \/ (Truthy(opts.channelMode) /\ type = Str("channel_post"))

\* --------------------------------------------------------- the inputs drawn
Kinds == {UpdateTypes[i] : i \in 1..Len(UpdateTypes)}
SubTypeKeys == {MessageSubTypes[i] : i \in 1..Len(MessageSubTypes)}
KindIdx(k) == CHOOSE i \in 1..Len(UpdateTypes) : UpdateTypes[i] = k
MessageLikeKinds == {"message", "edited_message", "channel_post", "edited_channel_post"}

\* an optional field: absent, or present with one of the values
Opt(key, values) == {{}} \cup {{<<key, v>>} : v \in values}

RECURSIVE SubsetsUpTo(_, _)
SubsetsUpTo(S, n) ==
  IF n = 0 THEN {{}}
  ELSE LET smaller == SubsetsUpTo(S, n - 1)
       IN smaller \cup {s \cup {k} : s \in smaller, k \in S}

ChatObj(n) == Obj([id |-> Num(n)])
UserObj(n) == Obj([id |-> Num(n)])

\* a Message of kind number i: message_id 300+i, chat id 100+i, sender id 200+i
MessageObjs(i, chats, froms, contents) ==
  { Obj(Rec({<<"message_id", Num(300 + i)>>} \cup c \cup f
            \cup {<<k, Str("v")>> : k \in content})) :
      c \in chats, f \in froms, content \in contents }

EmbeddedMessages ==
  { Obj([message_id |-> Num(350), chat |-> ChatObj(150)]),
    Obj([message_id |-> Num(350)]) }

CallbackQueryObjs ==
  { Obj(Rec({<<"id", Str("cbq")>>} \cup f \cup m \cup im)) :
      f \in Opt("from", {UserObj(200 + KindIdx("callback_query"))}),
      m \in Opt("message", {Null} \cup EmbeddedMessages),
      im \in Opt("inline_message_id", {Null, Str("imi-cbq")}) }

ChosenInlineResultObjs ==
  { Obj(Rec({<<"result_id", Str("res")>>} \cup f \cup im)) :
      f \in Opt("from", {UserObj(200 + KindIdx("chosen_inline_result"))}),
      im \in Opt("inline_message_id", {Null, Str("imi-cir")}) }

QueryObjs(k) ==
  { Obj(Rec({<<"id", Str(k)>>} \cup f)) : f \in Opt("from", {UserObj(200 + KindIdx(k))}) }

\* every value a field of the update may take in a single-kind update
Values(k) ==
  {Null} \cup
  CASE k \in MessageLikeKinds ->
         MessageObjs(KindIdx(k), Opt("chat", {Null, ChatObj(100 + KindIdx(k))}),
                     Opt("from", {UserObj(200 + KindIdx(k))}), {{}, {"text"}})
    [] k = "callback_query" -> CallbackQueryObjs
    [] k = "chosen_inline_result" -> ChosenInlineResultObjs
    [] k \in {"inline_query", "shipping_query", "pre_checkout_query"} -> QueryObjs(k)
    [] OTHER -> {Obj([id |-> Str(k)])}

\* the object of kind k with every field the chains read
Full(k) ==
  CASE k \in MessageLikeKinds ->
         Obj([message_id |-> Num(300 + KindIdx(k)), chat |-> ChatObj(100 + KindIdx(k)),
              from |-> UserObj(200 + KindIdx(k))])
    [] k = "callback_query" ->
         Obj([id |-> Str("cbq"), from |-> UserObj(200 + KindIdx(k)),
              message |-> Obj([message_id |-> Num(350), chat |-> ChatObj(150)]),
              inline_message_id |-> Str("imi-cbq")])
    [] k = "chosen_inline_result" ->
         Obj([result_id |-> Str("res"), from |-> UserObj(200 + KindIdx(k)),
              inline_message_id |-> Str("imi-cir")])
    [] k \in {"inline_query", "shipping_query", "pre_checkout_query"} ->
         Obj([id |-> Str(k), from |-> UserObj(200 + KindIdx(k))])
    [] OTHER -> Obj([id |-> Str(k)])

\* the object of kind k with none of them
Bare(k) ==
  CASE k \in MessageLikeKinds -> Obj([message_id |-> Num(300 + KindIdx(k))])
    [] k = "chosen_inline_result" -> Obj([result_id |-> Str("res")])
    [] k = "callback_query" -> Obj([id |-> Str("cbq")])
    [] OTHER -> Obj([id |-> Str(k)])

Representatives(k) == {Null, Bare(k), Full(k)}

\* an update object: update_id and the given fields
UpdateObj(fields) == Obj(Rec({<<"update_id", Num(1)>>} \cup fields))

\* the ways to give every kind of S one of its representative values, as
\* sets of <<kind, value>> pairs
RECURSIVE Assignments(_)
Assignments(S) ==
  IF S = {} THEN {{}}
  ELSE LET k == CHOOSE x \in S : TRUE
       IN {a \cup {<<k, v>>} : a \in Assignments(S \ {k}), v \in Representatives(k)}

\* updates with 1..MaxKinds primary-kind fields, each a representative value
KindUpdates ==
  UNION { { UpdateObj(fields) : fields \in Assignments(S) } :
          S \in SubsetsUpTo(Kinds, MaxKinds) \ {{}} }

\* updates with one primary-kind field, every value of it
SingleUpdates == UNION { { UpdateObj({<<k, v>>}) : v \in Values(k) } : k \in Kinds }

\* message and channel_post updates with 0..MaxSubKeys content fields
ContentUpdates ==
  UNION { { UpdateObj({<<k, m>>}) :
              m \in MessageObjs(KindIdx(k), {{<<"chat", ChatObj(100 + KindIdx(k))>>}},
                                {{}}, SubsetsUpTo(SubTypeKeys, MaxSubKeys)) } :
          k \in {"message", "channel_post"} }

\* the update with no primary-kind field
EmptyUpdate == UpdateObj({})

UpdatesConstruct == KindUpdates \cup SingleUpdates \cup ContentUpdates \cup {EmptyUpdate}

\* updates with a callback_query or chosen_inline_result field and one
\* later-declared primary-kind field, the later one a full object
PairUpdates ==
  UNION { { UpdateObj({<<UpdateTypes[p[1]], v>>,
                       <<UpdateTypes[p[2]], Full(UpdateTypes[p[2]])>>}) :
              v \in Representatives(UpdateTypes[p[1]]) } :
          p \in {q \in (1..Len(UpdateTypes)) \X (1..Len(UpdateTypes)) :
                   /\ q[1] < q[2]
                   /\ UpdateTypes[q[1]] \in {"callback_query", "chosen_inline_result"}} }

\* { message: { message_id: 10, chat: { id: 5 }, from: { id: 7 }, text: "hi" } }
ExampleUpdate ==
  UpdateObj({<<"message",
               Obj([message_id |-> Num(10), chat |-> ChatObj(5),
                    from |-> UserObj(7), text |-> Str("hi")])>>})

UpdatesDispatch == SingleUpdates \cup PairUpdates \cup {EmptyUpdate, ExampleUpdate}

\* the example message and a callback query with an embedded message
UpdatesFacade ==
  { ExampleUpdate, UpdateObj({<<"callback_query", Full("callback_query")>>}) }

\* the arguments a caller passes: none, or MaxArgs distinct opaque values
CallerArg(i) == [t |-> "arg", i |-> i]
CallerArgs == { << >>, [i \in 1..MaxArgs |-> CallerArg(i)] }

\* the (markdown, extra) a caller passes to replyWithMarkdown and its siblings
SugarArgs ==
  { << CallerArg(1) >>,
    << CallerArg(1), Obj([disable_notification |-> Bool(TRUE)]) >>,
    << CallerArg(1), Obj([parse_mode |-> Str("custom")]) >> }

\* the objects a caller assigns to ctx.state, by their keys
BagValues == { {"k"} }

\* the options argument; a property left out reads as undefined
OptionsSet ==
  { [channelMode |-> Undefined, username |-> Undefined],
    [channelMode |-> Bool(FALSE), username |-> Str("bot")],
    [channelMode |-> Bool(TRUE), username |-> Str("bot")] }

\* ------------------------------------------------------------------- state
VARIABLES
  pc,             \* "new" before the constructor ran, then "ready" or "failed"
  update,         \* this.update
  options,        \* this.options
  updateType,     \* this.updateType
  updateSubTypes, \* this.updateSubTypes
  contextState,   \* this.contextState: undefined or a reference into heap
  heap,           \* the state bags allocated, by reference: each bag's keys
  ncalls,         \* how many calls the Telegram client (this.tg) received
  stateSeen,      \* the bag the caller last read from ctx.state since it last assigned it
  last            \* the most recent operation on the facade and its outcome

vars == << pc, update, options, updateType, updateSubTypes, contextState, heap,
           ncalls, stateSeen, last >>

NoCall == [op |-> "", args |-> << >>]
NoError == [method |-> "", updateType |-> Undefined, updateSubTypes |-> << >>]

\* what an operation on the facade did: it returned (ok) or threw
\* (before: the client's call count before a dispatch, the bag seen before a
\* read of ctx.state; call: the call the client received from a dispatch)
Outcome(op, args, result, value, error, call, before) ==
  [op |-> op, args |-> args, result |-> result, value |-> value, error |-> error,
   call |-> call, before |-> before]

NoOutcome == Outcome("", << >>, "", Undefined, NoError, NoCall, Undefined)

StateGetFresh(cs, hp) ==
  [contextState |-> cs, heap |-> Append(hp, {}), value |-> Ref(Len(hp) + 1)]

\* get state(): the bag, created and stored when there is none
StateGet(cs, hp) ==
  IF ~Truthy(cs)
  THEN [contextState |-> Ref(Len(hp) + 1), heap |-> Append(hp, {}),
        value |-> Ref(Len(hp) + 1)]
  ELSE [contextState |-> cs, heap |-> hp, value |-> cs]

\* the constructor's classification: throws (a TypeError from `in`) or yields
\* updateType and updateSubTypes
Classify(u, opts) ==
  LET type == FindUpdateType(u)
      wants == WantsSubTypes(type, opts)
      sub == Prop(u, type.s)
  IN IF wants /\ ~CanIn(sub)
     THEN [threw |-> TRUE, updateType |-> type, updateSubTypes |-> << >>]
     ELSE [threw |-> FALSE, updateType |-> type,
           updateSubTypes |-> IF wants THEN SubTypesOf(sub) ELSE << >>]

\* ------------------------------------------------------------- the getters
Message == Prop(update, "message")
EditedMessage == Prop(update, "edited_message")
InlineQuery == Prop(update, "inline_query")
ShippingQuery == Prop(update, "shipping_query")
PreCheckoutQuery == Prop(update, "pre_checkout_query")
ChosenInlineResult == Prop(update, "chosen_inline_result")
ChannelPost == Prop(update, "channel_post")
EditedChannelPost == Prop(update, "edited_channel_post")
CallbackQuery == Prop(update, "callback_query")
Poll == Prop(update, "poll")
PollAnswer == Prop(update, "poll_answer")
Me == options.username

ChatCallbackFirst ==
  OptProp(
    CoalesceAll(<< OptProp(CallbackQuery, "message"), Message, EditedMessage,
                   ChannelPost, EditedChannelPost >>),
    "chat")

\* get chat()
Chat ==
  OptProp(
    CoalesceAll(<< Message, EditedMessage, OptProp(CallbackQuery, "message"),
                   ChannelPost, EditedChannelPost >>),
    "chat")

\* get from()
From ==
  OptProp(
    CoalesceAll(<< Message, EditedMessage, CallbackQuery, InlineQuery, ChannelPost,
                   EditedChannelPost, ShippingQuery, PreCheckoutQuery,
                   ChosenInlineResult >>),
    "from")

\* get inlineMessageId()
InlineMessageId == OptProp(Coalesce(CallbackQuery, ChosenInlineResult), "inline_message_id")

\* get passportData()
PassportData == OptProp(Message, "passport_data")

Accessors ==
  { "me", "updateType", "updateSubTypes", "message", "editedMessage", "inlineQuery",
    "shippingQuery", "preCheckoutQuery", "chosenInlineResult", "channelPost",
    "editedChannelPost", "callbackQuery", "poll", "pollAnswer", "chat", "from",
    "inlineMessageId", "passportData" }

\* what reading ctx[a] returns
Getter(a) ==
  CASE a = "me" -> Me
    [] a = "updateType" -> updateType
    [] a = "updateSubTypes" -> Arr(updateSubTypes)
    [] a = "message" -> Message
    [] a = "editedMessage" -> EditedMessage
    [] a = "inlineQuery" -> InlineQuery
    [] a = "shippingQuery" -> ShippingQuery
    [] a = "preCheckoutQuery" -> PreCheckoutQuery
    [] a = "chosenInlineResult" -> ChosenInlineResult
    [] a = "channelPost" -> ChannelPost
    [] a = "editedChannelPost" -> EditedChannelPost
    [] a = "callbackQuery" -> CallbackQuery
    [] a = "poll" -> Poll
    [] a = "pollAnswer" -> PollAnswer
    [] a = "chat" -> Chat
    [] a = "from" -> From
    [] a = "inlineMessageId" -> InlineMessageId
    [] a = "passportData" -> PassportData

\* --------------------------------------------------- the guard and dispatch
\* what a dispatch method did: threw from assert, threw a TypeError reading a
\* property of null or undefined, or called the client
Threw(method) ==
  [result |-> "PreconditionFailure",
   error |-> [method |-> method, updateType |-> updateType,
              updateSubTypes |-> updateSubTypes],
   call |-> NoCall]
TypeErr == [result |-> "TypeError", error |-> NoError, call |-> NoCall]
Called(op, args) == [result |-> "ok", error |-> NoError, call |-> [op |-> op, args |-> args]]

AssertFailsNever(value) == FALSE

\* assert(value, method) throws: value === undefined
AssertFails(value) == value = Undefined

\* a declared parameter: the argument passed, undefined when it was not
Arg(args, i) == IF i <= Len(args) THEN args[i] ELSE Undefined
\* the declared parameters of a method that declares n of them
Params(args, n) == [i \in 1..n |-> Arg(args, i)]
\* ...args
Rest == -1
Passed(args, arity) == IF arity = Rest THEN args ELSE Params(args, arity)

\* method -> the update field it requires, the client operation, its parameters
QueryMethods ==
  [ answerInlineQuery |-> [via |-> "inline_query", op |-> "answerInlineQuery", arity |-> Rest],
    answerCbQuery |-> [via |-> "callback_query", op |-> "answerCbQuery", arity |-> Rest],
    answerGameQuery |-> [via |-> "callback_query", op |-> "answerGameQuery", arity |-> Rest],
    answerShippingQuery |-> [via |-> "shipping_query", op |-> "answerShippingQuery", arity |-> Rest],
    answerPreCheckoutQuery |->
      [via |-> "pre_checkout_query", op |-> "answerPreCheckoutQuery", arity |-> Rest] ]

\* method -> the client operation, its parameters
ChatMethods ==
  [ reply |-> [op |-> "sendMessage", arity |-> Rest],
    getChat |-> [op |-> "getChat", arity |-> Rest],
    exportChatInviteLink |-> [op |-> "exportChatInviteLink", arity |-> Rest],
    kickChatMember |-> [op |-> "kickChatMember", arity |-> Rest],
    unbanChatMember |-> [op |-> "unbanChatMember", arity |-> Rest],
    restrictChatMember |-> [op |-> "restrictChatMember", arity |-> Rest],
    promoteChatMember |-> [op |-> "promoteChatMember", arity |-> Rest],
    setChatAdministratorCustomTitle |-> [op |-> "setChatAdministratorCustomTitle", arity |-> Rest],
    setChatPhoto |-> [op |-> "setChatPhoto", arity |-> Rest],
    deleteChatPhoto |-> [op |-> "deleteChatPhoto", arity |-> Rest],
    setChatTitle |-> [op |-> "setChatTitle", arity |-> Rest],
    setChatDescription |-> [op |-> "setChatDescription", arity |-> Rest],
    pinChatMessage |-> [op |-> "pinChatMessage", arity |-> Rest],
    unpinChatMessage |-> [op |-> "unpinChatMessage", arity |-> Rest],
    leaveChat |-> [op |-> "leaveChat", arity |-> Rest],
    setChatPermissions |-> [op |-> "setChatPermissions", arity |-> Rest],
    getChatAdministrators |-> [op |-> "getChatAdministrators", arity |-> Rest],
    getChatMember |-> [op |-> "getChatMember", arity |-> Rest],
    getChatMembersCount |-> [op |-> "getChatMembersCount", arity |-> Rest],
    replyWithPhoto |-> [op |-> "sendPhoto", arity |-> Rest],
    replyWithMediaGroup |-> [op |-> "sendMediaGroup", arity |-> Rest],
    replyWithAudio |-> [op |-> "sendAudio", arity |-> Rest],
    replyWithDice |-> [op |-> "sendDice", arity |-> Rest],
    replyWithDocument |-> [op |-> "sendDocument", arity |-> Rest],
    replyWithSticker |-> [op |-> "sendSticker", arity |-> Rest],
    replyWithVideo |-> [op |-> "sendVideo", arity |-> Rest],
    replyWithAnimation |-> [op |-> "sendAnimation", arity |-> Rest],
    replyWithVideoNote |-> [op |-> "sendVideoNote", arity |-> Rest],
    replyWithInvoice |-> [op |-> "sendInvoice", arity |-> Rest],
    replyWithGame |-> [op |-> "sendGame", arity |-> Rest],
    replyWithVoice |-> [op |-> "sendVoice", arity |-> Rest],
    replyWithPoll |-> [op |-> "sendPoll", arity |-> Rest],
    replyWithQuiz |-> [op |-> "sendQuiz", arity |-> Rest],
    stopPoll |-> [op |-> "stopPoll", arity |-> Rest],
    replyWithChatAction |-> [op |-> "sendChatAction", arity |-> Rest],
    replyWithLocation |-> [op |-> "sendLocation", arity |-> Rest],
    replyWithVenue |-> [op |-> "sendVenue", arity |-> Rest],
    replyWithContact |-> [op |-> "sendContact", arity |-> Rest],
    setChatStickerSet |-> [op |-> "setChatStickerSet", arity |-> 1],
    deleteChatStickerSet |-> [op |-> "deleteChatStickerSet", arity |-> 0] ]

UserMethods ==
  [ setPassportDataErrors |-> [op |-> "setPassportDataErrors", arity |-> 1],
    uploadStickerFile |-> [op |-> "uploadStickerFile", arity |-> Rest],
    createNewStickerSet |-> [op |-> "createNewStickerSet", arity |-> Rest],
    addStickerToSet |-> [op |-> "addStickerToSet", arity |-> Rest] ]

\* the edit family: every method calls the client operation of its own name
EditMethods ==
  [ editMessageText |-> [arity |-> 2],
    editMessageCaption |-> [arity |-> 2],
    editMessageMedia |-> [arity |-> 2],
    editMessageReplyMarkup |-> [arity |-> 1],
    editMessageLiveLocation |-> [arity |-> 3],
    stopMessageLiveLocation |-> [arity |-> 1] ]

\* the methods that delegate with no guard, under their own name
PassThroughMethods ==
  [ getStickerSet |-> [arity |-> 1],
    setStickerPositionInSet |-> [arity |-> 2],
    setStickerSetThumb |-> [arity |-> Rest],
    deleteStickerFromSet |-> [arity |-> 1],
    getMyCommands |-> [arity |-> 0],
    setMyCommands |-> [arity |-> 1] ]

SugarMethods ==
  [ replyWithMarkdown |-> "Markdown",
    replyWithMarkdownV2 |-> "MarkdownV2",
    replyWithHTML |-> "HTML" ]

\* the same, with the identifier after the caller's arguments
GuardedByIdTrailing(m, required, op, passed) ==
  IF AssertFails(required) THEN Threw(m)
  ELSE IF IsNullish(required) THEN TypeErr
  ELSE Called(op, passed \o << Prop(required, "id") >>)

\* assert(required, m); return this.telegram[op](required.id, ...)
GuardedById(m, required, op, passed) ==
  IF AssertFails(required) THEN Threw(m)
  ELSE IF IsNullish(required) THEN TypeErr
  ELSE Called(op, << Prop(required, "id") >> \o passed)

\* answerInlineQuery .. answerPreCheckoutQuery
QueryScoped(m, args) ==
  GuardedById(m, Prop(update, QueryMethods[m].via), QueryMethods[m].op,
              Passed(args, QueryMethods[m].arity))

\* reply .. deleteChatStickerSet
ChatScoped(m, args) ==
  GuardedById(m, Chat, ChatMethods[m].op, Passed(args, ChatMethods[m].arity))

\* setPassportDataErrors, uploadStickerFile, createNewStickerSet, addStickerToSet
UserScoped(m, args) ==
  GuardedById(m, From, UserMethods[m].op, Passed(args, UserMethods[m].arity))

\* the three addressing arguments of the edit family
EditIds ==
  << OptProp(Chat, "id"),
     OptProp(OptProp(CallbackQuery, "message"), "message_id"),
     InlineMessageId >>

EditFamilyUnguarded(m, args) ==
  IF m = "editMessageLiveLocation"
  THEN Called(m, << Arg(args, 1), Arg(args, 2) >> \o EditIds \o << Arg(args, 3) >>)
  ELSE Called(m, EditIds \o Params(args, EditMethods[m].arity))

\* editMessageText .. stopMessageLiveLocation
EditFamily(m, args) ==
  IF AssertFails(Coalesce(CallbackQuery, InlineMessageId)) THEN Threw(m)
  ELSE IF m = "editMessageLiveLocation"
  THEN Called(m, << Arg(args, 1), Arg(args, 2) >> \o EditIds \o << Arg(args, 3) >>)
  ELSE Called(m, EditIds \o Params(args, EditMethods[m].arity))

\* getStickerSet .. setMyCommands
PassThrough(m, args) == Called(m, Passed(args, PassThroughMethods[m].arity))

\* { parse_mode: mode, ...extra } for an extra that is undefined or an object
WithParseMode(mode, extra) ==
  LET given == IF extra.t = "obj" THEN DOMAIN extra.f ELSE {}
  IN Obj([k \in {"parse_mode"} \cup given |->
            IF k \in given THEN extra.f[k] ELSE Str(mode)])

\* replyWithMarkdown, replyWithMarkdownV2, replyWithHTML
ReplySugar(m, args) ==
  ChatScoped("reply", << Arg(args, 1), WithParseMode(SugarMethods[m], Arg(args, 2)) >>)

DeleteMessageOwnOnly(args) ==
  IF AssertFails(Chat) \/ AssertFails(Message) THEN Threw("deleteMessage")
  ELSE IF IsNullish(Chat) \/ IsNullish(Message) THEN TypeErr
  ELSE Called("deleteMessage", << Prop(Chat, "id"), Prop(Message, "message_id") >>)

\* deleteMessage(messageId?)
DeleteMessage(args) ==
  IF AssertFails(Chat) THEN Threw("deleteMessage")
  ELSE IF Arg(args, 1) # Undefined
  THEN IF IsNullish(Chat) THEN TypeErr
       ELSE Called("deleteMessage", << Prop(Chat, "id"), Arg(args, 1) >>)
  ELSE IF AssertFails(Message) THEN Threw("deleteMessage")
  ELSE IF IsNullish(Chat) \/ IsNullish(Message) THEN TypeErr
  ELSE Called("deleteMessage", << Prop(Chat, "id"), Prop(Message, "message_id") >>)

\* forwardMessage(chatId, extra)
ForwardMessage(args) ==
  IF AssertFails(Message) THEN Threw("forwardMessage")
  ELSE IF IsNullish(Message) \/ IsNullish(Prop(Message, "chat")) THEN TypeErr
  ELSE Called("forwardMessage",
              << Arg(args, 1), Prop(Prop(Message, "chat"), "id"),
                 Prop(Message, "message_id"), Arg(args, 2) >>)

\* ----------------------------------------------------------------- actions
InitCommon ==
  /\ pc = "new"
  /\ updateType = Undefined
  /\ updateSubTypes = << >>
  /\ contextState = Undefined
  /\ heap = << >>
  /\ ncalls = 0
  /\ stateSeen = Undefined
  /\ last = NoOutcome

InitConstruct ==
  /\ update \in UpdatesConstruct
  /\ options \in OptionsSet
  /\ InitCommon

InitDispatch ==
  /\ update \in UpdatesDispatch
  /\ options = [channelMode |-> Undefined, username |-> Undefined]
  /\ InitCommon

Init ==
  /\ update \in UpdatesFacade
  /\ options = [channelMode |-> Bool(TRUE), username |-> Str("bot")]
  /\ InitCommon

\* new TelegrafContext(update, tg, options). The loop that binds the methods
\* reads this[key] for every name of the prototype, the getters included, so
\* get state() runs once here.
Construct ==
  /\ pc = "new"
  /\ LET c == Classify(update, options)
         s == StateGet(contextState, heap)
     IN IF c.threw
        THEN /\ pc' = "failed"
             /\ last' = Outcome("constructor", << >>, "TypeError", Undefined, NoError, NoCall, Undefined)
             /\ UNCHANGED << updateType, updateSubTypes, contextState, heap >>
        ELSE /\ pc' = "ready"
             /\ updateType' = c.updateType
             /\ updateSubTypes' = c.updateSubTypes
             /\ contextState' = s.contextState
             /\ heap' = s.heap
             /\ last' = Outcome("constructor", << >>, "ok", Undefined, NoError, NoCall, Undefined)
  /\ UNCHANGED << update, options, ncalls, stateSeen >>

\* a read of one of the accessors
Read(a) ==
  /\ pc = "ready"
  /\ last' = Outcome(a, << >>, "ok", Getter(a), NoError, NoCall, Undefined)
  /\ UNCHANGED << pc, update, options, updateType, updateSubTypes, contextState, heap,
                  ncalls, stateSeen >>

\* a read of ctx.state
ReadState ==
  /\ pc = "ready"
  /\ Truthy(contextState) \/ Len(heap) < MaxBags
  /\ LET s == StateGet(contextState, heap)
     IN /\ contextState' = s.contextState
        /\ heap' = s.heap
        /\ stateSeen' = s.value
        /\ last' = Outcome("state", << >>, "ok", s.value, NoError, NoCall, stateSeen)
  /\ UNCHANGED << pc, update, options, updateType, updateSubTypes, ncalls >>

\* ctx.state = value: this.contextState = { ...value }
WriteState(value) ==
  /\ pc = "ready"
  /\ Len(heap) < MaxBags
  /\ contextState' = Ref(Len(heap) + 1)
  /\ heap' = Append(heap, value)
  /\ stateSeen' = Undefined
  /\ last' = Outcome("state=", << >>, "ok", Undefined, NoError, NoCall, Undefined)
  /\ UNCHANGED << pc, update, options, updateType, updateSubTypes, ncalls >>

\* a call of dispatch method m with the arguments args, and what it did
Dispatch(m, args, r) ==
  /\ pc = "ready"
  /\ ncalls < MaxCalls
  /\ last' = Outcome(m, args, r.result, Undefined, r.error, r.call, Num(ncalls))
  /\ ncalls' = IF r.result = "ok" THEN ncalls + 1 ELSE ncalls
  /\ UNCHANGED << pc, update, options, updateType, updateSubTypes, contextState, heap,
                  stateSeen >>

CallQueryScoped ==
  \E m \in DOMAIN QueryMethods, args \in CallerArgs : Dispatch(m, args, QueryScoped(m, args))
CallChatScoped ==
  \E m \in DOMAIN ChatMethods, args \in CallerArgs : Dispatch(m, args, ChatScoped(m, args))
CallUserScoped ==
  \E m \in DOMAIN UserMethods, args \in CallerArgs : Dispatch(m, args, UserScoped(m, args))
CallEditFamily ==
  \E m \in DOMAIN EditMethods, args \in CallerArgs : Dispatch(m, args, EditFamily(m, args))
CallPassThrough ==
  \E m \in DOMAIN PassThroughMethods, args \in CallerArgs :
    Dispatch(m, args, PassThrough(m, args))
CallReplySugar ==
  \E m \in DOMAIN SugarMethods, args \in SugarArgs : Dispatch(m, args, ReplySugar(m, args))
CallDeleteMessage ==
  \E args \in CallerArgs : Dispatch("deleteMessage", args, DeleteMessage(args))
CallForwardMessage ==
  \E args \in CallerArgs : Dispatch("forwardMessage", args, ForwardMessage(args))

NextConstruct == Construct

SpecConstruct == InitConstruct /\ [][NextConstruct]_vars

NextDispatch ==
  \/ Construct
  \/ CallQueryScoped
  \/ CallChatScoped
  \/ CallUserScoped
  \/ CallEditFamily
  \/ CallPassThrough
  \/ CallReplySugar
  \/ CallDeleteMessage
  \/ CallForwardMessage

SpecDispatch == InitDispatch /\ [][NextDispatch]_vars

Next ==
  \/ Construct
  \/ \E a \in Accessors : Read(a)
  \/ ReadState
  \/ \E value \in BagValues : WriteState(value)
  \/ CallQueryScoped
  \/ CallChatScoped
  \/ CallUserScoped
  \/ CallEditFamily
  \/ CallPassThrough
  \/ CallReplySugar
  \/ CallDeleteMessage
  \/ CallForwardMessage

Spec == Init /\ [][Next]_vars

\* ------------------------------------------------------------------ claims
IsObj(v) == v.t = "obj"
KindPresent == \E k \in Kinds : In(k, update)
IsCallOf(methods) == pc = "ready" /\ last.op \in methods
Failure(m) == [method |-> m, updateType |-> updateType, updateSubTypes |-> updateSubTypes]
FailedGuard(m) ==
  /\ last.result = "PreconditionFailure"
  /\ last.error = Failure(m)
  /\ last.call = NoCall
  /\ ncalls = last.before.n
CalledOnce(op, args) ==
  /\ last.result = "ok"
  /\ last.call = [op |-> op, args |-> args]
  /\ ncalls = last.before.n + 1
\* a method's declared parameters as the caller's arguments fill them
Declared(args, n) == [i \in 1..n |-> IF i <= Len(args) THEN args[i] ELSE Undefined]

\* the primary kinds in the order C1 declares them
DeclaredKinds ==
  << "callback_query", "channel_post", "chosen_inline_result",
     "edited_channel_post", "edited_message", "inline_query", "shipping_query",
     "pre_checkout_query", "message", "poll", "poll_answer" >>

\* C1: a facade built from an update that carries a primary-kind field has as
\* updateType the first kind, in declared order, whose field is in the update:
\* the one kind when there is one, the earlier-declared one when there are two.
C1_FirstDeclaredKind ==
  (pc = "ready" /\ KindPresent) =>
    \E i \in 1..Len(DeclaredKinds) :
      /\ updateType = Str(DeclaredKinds[i])
      /\ In(DeclaredKinds[i], update)
      /\ \A j \in 1..(i - 1) : ~In(DeclaredKinds[j], update)

\* C1: an update with message and callback_query was classified callback_query
C1_Witness ==
  /\ pc = "ready"
  /\ In("message", update) /\ In("callback_query", update)
  /\ updateType = Str("callback_query")

\* C2: constructing from an update with no primary-kind field fails, so every
\* facade's updateType is one of the primary kinds.
C2_NoKindFailsConstruction ==
  /\ (pc # "new" /\ ~KindPresent) => pc = "failed"
  /\ pc = "ready" => updateType \in {Str(k) : k \in Kinds}

SubLabel(k) == IF k = "forward_date" THEN "forward" ELSE k
SubKey(l) == IF l = "forward" THEN "forward_date" ELSE l
SubPos(k) == CHOOSE i \in 1..Len(MessageSubTypes) : MessageSubTypes[i] = k

\* C3: updateSubTypes is, for a message, or a channel_post under channelMode,
\* the secondary kinds whose field is in the classified sub-object, each once,
\* in declaration order, forward_date as "forward" (text with forward_date
\* gives <<"text", "forward">>); and empty in every other case.
C3_SecondaryKinds ==
  pc = "ready" =>
    LET applies == \/ updateType = Str("message")
                   \/ updateType = Str("channel_post") /\ options.channelMode = Bool(TRUE)
        sub == Prop(update, updateType.s)
        present == {k \in SubTypeKeys : In(k, sub)}
        n == Len(updateSubTypes)
    IN IF applies
       THEN /\ n = Cardinality(present)
            /\ \A i \in 1..n : /\ SubKey(updateSubTypes[i]) \in present
                               /\ updateSubTypes[i] = SubLabel(SubKey(updateSubTypes[i]))
            /\ \A i \in 1..n : \A j \in (i + 1)..n :
                 SubPos(SubKey(updateSubTypes[i])) < SubPos(SubKey(updateSubTypes[j]))
            /\ present = {"text", "forward_date"} => updateSubTypes = << "text", "forward" >>
       ELSE updateSubTypes = << >>

\* C3: a message with text and forward_date was classified
C3_Witness ==
  /\ pc = "ready"
  /\ updateType = Str("message")
  /\ In("text", Message) /\ In("forward_date", Message)
  /\ updateSubTypes = << "text", "forward" >>

\* the field of the first candidate that is neither undefined nor null
FirstPresentField(candidates, field) ==
  LET present == {i \in 1..Len(candidates) : ~IsNullish(candidates[i])}
  IN IF present = {} THEN Undefined
     ELSE Prop(candidates[CHOOSE i \in present : \A j \in present : i <= j], field)

\* C4: chat, from and inlineMessageId are the chat, from and inline_message_id
\* of the first present candidate in their probe orders, a later candidate
\* never being consulted; message wins over callback_query for from, and a
\* callback_query update resolves chat to its embedded message's chat.
C4_ResolutionChains ==
  pc = "ready" =>
    /\ Chat = FirstPresentField(
         << Prop(update, "message"), Prop(update, "edited_message"),
            OptProp(Prop(update, "callback_query"), "message"),
            Prop(update, "channel_post"), Prop(update, "edited_channel_post") >>, "chat")
    /\ From = FirstPresentField(
         << Prop(update, "message"), Prop(update, "edited_message"),
            Prop(update, "callback_query"), Prop(update, "inline_query"),
            Prop(update, "channel_post"), Prop(update, "edited_channel_post"),
            Prop(update, "shipping_query"), Prop(update, "pre_checkout_query"),
            Prop(update, "chosen_inline_result") >>, "from")
    /\ InlineMessageId = FirstPresentField(
         << Prop(update, "callback_query"), Prop(update, "chosen_inline_result") >>,
         "inline_message_id")
    /\ (IsObj(Prop(update, "message")) /\ IsObj(Prop(update, "callback_query")))
         => From = Prop(Prop(update, "message"), "from")
    /\ (DOMAIN update.f = {"update_id", "callback_query"}
        /\ IsObj(OptProp(Prop(update, "callback_query"), "message")))
         => Chat = Prop(Prop(Prop(update, "callback_query"), "message"), "chat")

\* C4: a message with neither from nor chat beside a callback_query with from
\* and an embedded message with a chat: from and chat are both undefined
C4_Witness ==
  /\ pc = "ready"
  /\ IsObj(Message) /\ ~In("from", Message) /\ ~In("chat", Message)
  /\ IsObj(CallbackQuery) /\ In("from", CallbackQuery)
  /\ IsObj(Prop(OptProp(CallbackQuery, "message"), "chat"))
  /\ From = Undefined
  /\ Chat = Undefined

\* the chat-, query- and user-scoped methods
GuardedMethods == DOMAIN QueryMethods \cup DOMAIN ChatMethods \cup DOMAIN UserMethods
\* the value a chat-, query- or user-scoped method requires
Required(m) ==
  IF m \in DOMAIN QueryMethods THEN Prop(update, QueryMethods[m].via)
  ELSE IF m \in DOMAIN ChatMethods THEN Chat
  ELSE From

\* C5: a chat-, query- or user-scoped method called when the value it requires
\* is missing throws the failure naming the method, updateType and
\* updateSubTypes, and the client receives no call.
C5_MissingValueFailsGuard ==
  (IsCallOf(GuardedMethods) /\ Required(last.op) = Undefined) => FailedGuard(last.op)

\* C5: reply was called on an inline_query update
C5_Witness ==
  /\ IsCallOf({"reply"})
  /\ updateType = Str("inline_query")
  /\ last.result = "PreconditionFailure"
  /\ last.error.method = "reply" /\ last.error.updateType = Str("inline_query")

\* C6: a guarded method called when the value it requires is null throws the
\* same failure as for a missing value, and the client receives no call.
C6_NullValueFailsGuard ==
  /\ (IsCallOf(GuardedMethods) /\ Required(last.op) = Null) => FailedGuard(last.op)
  /\ (IsCallOf(DOMAIN EditMethods) /\ IsNullish(CallbackQuery) /\ InlineMessageId = Null)
       => FailedGuard(last.op)

\* the operation a guarded method delegates to, and the identifiers it resolves
MappedOp(m) ==
  IF m \in DOMAIN QueryMethods THEN QueryMethods[m].op
  ELSE IF m \in DOMAIN ChatMethods THEN ChatMethods[m].op
  ELSE IF m \in DOMAIN UserMethods THEN UserMethods[m].op
  ELSE m
MappedArity(m) ==
  IF m \in DOMAIN QueryMethods THEN QueryMethods[m].arity
  ELSE IF m \in DOMAIN ChatMethods THEN ChatMethods[m].arity
  ELSE IF m \in DOMAIN UserMethods THEN UserMethods[m].arity
  ELSE IF m \in DOMAIN EditMethods THEN EditMethods[m].arity
  ELSE IF m = "deleteMessage" THEN 1
  ELSE 2
CallerPart(m, args) == IF MappedArity(m) = Rest THEN args ELSE Declared(args, MappedArity(m))
ResolvedIds(m) ==
  IF m \in GuardedMethods THEN << Prop(Required(m), "id") >>
  ELSE IF m \in DOMAIN EditMethods
  THEN << OptProp(Chat, "id"), OptProp(OptProp(CallbackQuery, "message"), "message_id"),
          InlineMessageId >>
  ELSE IF m = "forwardMessage"
  THEN << OptProp(OptProp(Message, "chat"), "id"), OptProp(Message, "message_id") >>
  ELSE << >>
AllGuarded == GuardedMethods \cup DOMAIN EditMethods \cup {"forwardMessage"}

C8_DeleteMessageTwoPaths ==
  IsCallOf({"deleteMessage"}) =>
    /\ Chat = Undefined => FailedGuard("deleteMessage")
    /\ (IsObj(Chat) /\ Len(last.args) >= 1) =>
         CalledOnce("deleteMessage", << Prop(Chat, "id"), last.args[1] >>)
    /\ (IsObj(Chat) /\ last.args = << >> /\ IsObj(Message)) =>
         CalledOnce("deleteMessage", << Prop(Chat, "id"), Prop(Message, "message_id") >>)
    /\ (IsObj(Chat) /\ last.args = << >> /\ Message = Undefined) =>
         FailedGuard("deleteMessage")

\* C8: deleteMessage(id) on an edited_message update, which has no message
C8_Witness ==
  /\ IsCallOf({"deleteMessage"})
  /\ updateType = Str("edited_message")
  /\ Message = Undefined
  /\ Len(last.args) >= 1
  /\ last.result = "ok"
  /\ last.call.args = << Prop(EditedMessage, "chat").f.id, last.args[1] >>

\* C9: an edit-family method fails the guard, calling nothing, when the update
\* has neither a callback query nor an inline message id; with either present
\* it delegates, passing the chat id, the callback query's message id and the
\* inline message id together, each possibly undefined.
C9_EditFamilyGuard ==
  IsCallOf(DOMAIN EditMethods) =>
    /\ (IsNullish(CallbackQuery) /\ InlineMessageId = Undefined) => FailedGuard(last.op)
    /\ (IsObj(CallbackQuery) \/ ~IsNullish(InlineMessageId)) =>
         /\ last.result = "ok"
         /\ last.call.op = last.op
         /\ ncalls = last.before.n + 1
         /\ LET at == IF last.op = "editMessageLiveLocation" THEN 2 ELSE 0
            IN /\ last.call.args[at + 1] = OptProp(Chat, "id")
               /\ last.call.args[at + 2] =
                    OptProp(OptProp(CallbackQuery, "message"), "message_id")
               /\ last.call.args[at + 3] = InlineMessageId

\* C9: editMessageText was called on a message update
C9_Witness ==
  /\ IsCallOf({"editMessageText"})
  /\ updateType = Str("message")
  /\ last.result = "PreconditionFailure"
  /\ last.call = NoCall

\* C10: no step on a constructed facade changes what any accessor returns, and
\* a read of ctx.state returns the bag the previous read returned, unless the
\* bag was assigned in between.
C10_ReadsIdempotent ==
  [][ pc = "ready" =>
        /\ \A a \in Accessors : Getter(a)' = Getter(a)
        /\ (last'.op = "state" /\ last'.before # Undefined) => last'.value = last'.before
    ]_vars

\* C10: ctx.state was read a second time, after a dispatch that delegated
C10_Witness ==
  /\ pc = "ready"
  /\ last.op = "state"
  /\ last.before # Undefined
  /\ last.value = last.before
  /\ ncalls >= 1
====
